---- MODULE Spec2Model ----
(***************************************************************************)
(* The retrieval pipeline of the booking assistant (app/rag_pipeline.py)   *)
(* and its callers: the answering tool (app/tools.py), the service catalog *)
(* (app/booking_flow.py), the question route of the chat and the sidebar   *)
(* (app/chat_logic.py, app/main.py).                                       *)
(*                                                                         *)
(* Strings are sequences of tokens: a chunk is a sequence of tokens, an    *)
(* assembled context is the sequence of its label, chunk and separator     *)
(* tokens.  A substring test for a phrase is a test for the phrase's       *)
(* token.  An extracted text is the sequence of the chunk-sized passages   *)
(* the splitter cuts it into.                                              *)
(*                                                                         *)
(* Spec is the pipeline on one session; SpecRebuild takes process_pdfs     *)
(* step by step with retrievals in between; SpecSessions adds the other    *)
(* sessions of the process; SpecApp is the application around the          *)
(* pipeline.                                                               *)
(***************************************************************************)
EXTENDS Integers, Sequences, FiniteSets, TLC

\* Longest batch of documents handed to process_pdfs.
MaxBatch == 2

\* Largest explicit top_k passed to retrieve_relevant_chunks, beside the default.
MaxTopK == 2

\* The other user sessions served by the process.
MaxPeers == 2

\* app/config.py: TOP_K_CHUNKS
TOP_K_CHUNKS == 8

-----------------------------------------------------------------------------
(* Texts and the embedding model *)

Marker == "No relevant information"

\* The string get_context_for_query returns when nothing was retrieved.
NoContextMessage == <<Marker, " found in the uploaded documents.">>

TextAlice == <<"Dr. Alice - Cardiology", "Fee: $150">>
TextBob == <<"Dr. Bob - Dermatology">>
TextParking == <<Marker, " about parking is published.">>

QueryFee == <<"cardiology fee">>
QueryParking == <<"parking">>
QueryServices ==
  <<"List all doctors and their specialties with consultation fees">>

Queries == {QueryFee, QueryParking}

\* SentenceTransformer.encode of one text: deterministic, one fixed-length
\* vector per text.
Encode(text) ==
  CASE text = TextAlice -> <<0, 0>>
    [] text = TextBob -> <<2, 0>>
    [] text = TextParking -> <<0, 2>>
    [] text = QueryFee -> <<1, 0>>
    [] text = QueryParking -> <<0, 3>>
    [] text = QueryServices -> <<1, 1>>

-----------------------------------------------------------------------------
(* Documents *)

Page(units) == [raises |-> FALSE, units |-> units]
BadPage == [raises |-> TRUE, units |-> <<>>]

\* The documents a user may hand in: what pdfplumber finds in each.
\*   1  one page, two passages
\*   2  a page without text, then a page of two passages
\*   3  a damaged file: a page of text, then a page whose extract_text raises
\*   4  one page without text
Uploads ==
  << <<Page(<<TextAlice, TextBob>>)>>,
     <<Page(<<>>), Page(<<TextParking, TextAlice>>)>>,
     <<Page(<<TextBob>>), BadPage>>,
     <<Page(<<>>)>> >>

\* The sample PDFs of docs/, each with text.
SampleDocuments ==
  << <<Page(<<TextAlice, TextBob>>)>>,
     <<Page(<<TextParking>>)>>,
     <<Page(<<TextAlice>>), Page(<<TextBob>>)>> >>

Documents == Uploads \o SampleDocuments

\* The file objects of the sample PDFs, in the order of the sample_pdfs list.
SamplePdfs == [i \in 1..Len(SampleDocuments) |-> Len(Uploads) + i]

DocIds == 1..Len(Uploads)

Range(s) == {s[i] : i \in 1..Len(s)}

\* The batches: sequences of distinct file objects, of length at most n.
RECURSIVE Batches(_)
Batches(n) ==
  IF n = 0 THEN {<<>>}
  ELSE LET shorter == Batches(n - 1)
           longest == {b \in shorter : Len(b) = n - 1}
       IN shorter \cup
          UNION {{Append(b, d) : d \in DocIds \ Range(b)} : b \in longest}

-----------------------------------------------------------------------------
(* Session state *)

\* Python's None, and an index or array holding rows.
None == [none |-> TRUE, xb |-> <<>>]
Some(rows) == [none |-> FALSE, xb |-> rows]

\* A session before any script run: no key is set.
Blank ==
  [keys |-> {}, vector_store |-> None, chunks |-> <<>>, chunk_embeddings |-> None]

CorpusKeys == {"vector_store", "chunks", "chunk_embeddings"}

\* main.initialize_session_state, the corpus part: sets vector_store alone.
initialize_session_state(ss) ==
  IF "vector_store" \notin ss.keys
  THEN [ss EXCEPT !.keys = @ \cup {"vector_store"}, !.vector_store = None]
  ELSE ss

\* RAGPipeline.__init__: the embedding model and the corpus keys of the session.
RAGPipeline_init(ss) ==
  LET withModel == [ss EXCEPT !.keys = @ \cup {"embedding_model"}]
  IN IF "vector_store" \notin withModel.keys
     THEN [withModel EXCEPT !.keys = @ \cup CorpusKeys, !.vector_store = None,
                            !.chunks = <<>>, !.chunk_embeddings = None]
     ELSE withModel

\* The SentenceTransformer constructions of one RAGPipeline() in a session.
ModelLoads(ss) == IF "embedding_model" \in ss.keys THEN 0 ELSE 1

VARIABLES
  session_state,  \* st.session_state: vector_store, chunks, chunk_embeddings
  consumed,       \* the file objects whose stream has been read to its end
  last,           \* the last call: its inputs, the state before it, its outcome
  model_loads,    \* SentenceTransformer(EMBEDDING_MODEL) constructions so far
  peer_models,    \* the other sessions whose state holds "embedding_model"
  pending,        \* a process_pdfs call under way, when its steps are told apart
  booking,        \* per user session: booking_state, show_widget, a turn under way
  db,             \* the customers and the bookings table
  uploader        \* st.session_state.last_uploaded_files

vars ==
  <<session_state, consumed, last, model_loads, peer_models, pending,
    booking, db, uploader>>

-----------------------------------------------------------------------------
(* RAGPipeline *)

\* The pdf.pages loop of extract_text_from_pdf: it raises when a page does.
RECURSIVE ExtractPages(_, _, _)
ExtractPages(pages, i, text) ==
  IF i > Len(pages) THEN [ok |-> TRUE, text |-> text]
  ELSE IF pages[i].raises THEN [ok |-> FALSE, text |-> <<>>]
  ELSE ExtractPages(pages, i + 1, text \o pages[i].units)

\* extract_text_from_pdf on file object d, given the file objects already read:
\* pdf_file.read() of a stream at its end gives no bytes, and pdfplumber.open
\* raises on them.
extract_text_from_pdf(d, read) ==
  IF d \in read THEN [ok |-> FALSE, text |-> <<>>]
  ELSE ExtractPages(Documents[d], 1, <<>>)

\* chunk_text: the passages of the text, in source order.
chunk_text(text) == text

\* create_embeddings: one row per chunk, in order.
create_embeddings(chunks) == [i \in 1..Len(chunks) |-> Encode(chunks[i])]

\* build_vector_store without its assignment to st.session_state.chunks.
build_vector_store_keeps_chunks(ss, chunks, embeddings) ==
  IF Len(chunks) = 0 THEN ss
  ELSE [ss EXCEPT !.vector_store = Some(embeddings),
                  !.chunk_embeddings = Some(embeddings),
                  !.keys = @ \cup CorpusKeys]

\* build_vector_store adding to the index and the lists it finds.
build_vector_store_appends(ss, chunks, embeddings) ==
  IF Len(chunks) = 0 THEN ss
  ELSE [ss EXCEPT !.vector_store = Some(@.xb \o embeddings),
                  !.chunks = @ \o chunks,
                  !.chunk_embeddings = Some(@.xb \o embeddings),
                  !.keys = @ \cup CorpusKeys]

build_vector_store(ss, chunks, embeddings) ==
  IF Len(chunks) = 0 THEN ss
  ELSE [ss EXCEPT !.vector_store = Some(embeddings),
                  !.chunks = chunks,
                  !.chunk_embeddings = Some(embeddings),
                  !.keys = @ \cup CorpusKeys]

\* The for loop leaving at the first document that fails (break for continue).
RECURSIVE ProcessLoopStops(_, _, _, _)
ProcessLoopStops(files, i, all_chunks, read) ==
  IF i > Len(files) THEN [all_chunks |-> all_chunks, read |-> read]
  ELSE LET r == extract_text_from_pdf(files[i], read)
       IN IF r.ok
          THEN ProcessLoopStops(files, i + 1, all_chunks \o chunk_text(r.text),
                                read \cup {files[i]})
          ELSE [all_chunks |-> all_chunks, read |-> read \cup {files[i]}]

\* The for loop of process_pdfs: a document that fails is skipped.
RECURSIVE ProcessLoop(_, _, _, _)
ProcessLoop(files, i, all_chunks, read) ==
  IF i > Len(files) THEN [all_chunks |-> all_chunks, read |-> read]
  ELSE LET r == extract_text_from_pdf(files[i], read)
       IN IF r.ok
          THEN ProcessLoop(files, i + 1, all_chunks \o chunk_text(r.text),
                           read \cup {files[i]})
          ELSE ProcessLoop(files, i + 1, all_chunks, read \cup {files[i]})

\* process_pdfs dropping the stored corpus before it reads the batch.
process_pdfs_discards_first(ss, files, read, embed_ok) ==
  LET loop == ProcessLoop(files, 1, <<>>, read)
      cleared == [ss EXCEPT !.vector_store = None, !.chunks = <<>>,
                            !.chunk_embeddings = None]
  IN IF Len(loop.all_chunks) = 0
     THEN [ss |-> cleared, read |-> loop.read, err |-> "NoTextExtracted",
           ret |-> 0]
     ELSE IF ~embed_ok
     THEN [ss |-> cleared, read |-> loop.read, err |-> "EncodeFailed", ret |-> 0]
     ELSE [ss |-> build_vector_store(cleared, loop.all_chunks,
                                     create_embeddings(loop.all_chunks)),
           read |-> loop.read, err |-> "none", ret |-> Len(loop.all_chunks)]

\* process_pdfs embedding before it tests for an empty batch.
process_pdfs_embeds_first(ss, files, read, embed_ok) ==
  LET loop == ProcessLoop(files, 1, <<>>, read)
  IN IF ~embed_ok
     THEN [ss |-> ss, read |-> loop.read, err |-> "EncodeFailed", ret |-> 0]
     ELSE IF Len(loop.all_chunks) = 0
     THEN [ss |-> ss, read |-> loop.read, err |-> "NoTextExtracted", ret |-> 0]
     ELSE [ss |-> build_vector_store(ss, loop.all_chunks,
                                     create_embeddings(loop.all_chunks)),
           read |-> loop.read, err |-> "none", ret |-> Len(loop.all_chunks)]

\* process_pdfs returning the number of files instead of the number of chunks.
process_pdfs_counts_files(ss, files, read, embed_ok) ==
  LET loop == ProcessLoop(files, 1, <<>>, read)
  IN IF Len(loop.all_chunks) = 0
     THEN [ss |-> ss, read |-> loop.read, err |-> "NoTextExtracted", ret |-> 0]
     ELSE IF ~embed_ok
     THEN [ss |-> ss, read |-> loop.read, err |-> "EncodeFailed", ret |-> 0]
     ELSE [ss |-> build_vector_store(ss, loop.all_chunks,
                                     create_embeddings(loop.all_chunks)),
           read |-> loop.read, err |-> "none", ret |-> Len(files)]

\* process_pdfs: the session state it leaves, what it raises, what it returns.
process_pdfs(ss, files, read, embed_ok) ==
  LET loop == ProcessLoop(files, 1, <<>>, read)
  IN IF Len(loop.all_chunks) = 0
     THEN [ss |-> ss, read |-> loop.read, err |-> "NoTextExtracted", ret |-> 0]
     ELSE IF ~embed_ok
     THEN [ss |-> ss, read |-> loop.read, err |-> "EncodeFailed", ret |-> 0]
     ELSE [ss |-> build_vector_store(ss, loop.all_chunks,
                                     create_embeddings(loop.all_chunks)),
           read |-> loop.read, err |-> "none", ret |-> Len(loop.all_chunks)]

Min(a, b) == IF a <= b THEN a ELSE b

\* Squared Euclidean distance of two vectors of one length.
RECURSIVE SumSquares(_, _, _)
SumSquares(x, y, i) ==
  IF i > Len(x) THEN 0
  ELSE (x[i] - y[i]) * (x[i] - y[i]) + SumSquares(x, y, i + 1)

L2sqr(x, y) == SumSquares(x, y, 1)

\* Row i ranks before row j: nearer to q, or as near and added earlier.
RanksBefore(xb, q, i, j) ==
  \/ L2sqr(xb[i], q) < L2sqr(xb[j], q)
  \/ L2sqr(xb[i], q) = L2sqr(xb[j], q) /\ i < j

\* IndexFlatL2.search for k >= 1: the labels of the k nearest rows, nearest
\* first; a search for more rows than the index holds pads with label -1.
\* A 0-based label i is kept as i + 1, so the padding is 0.
RECURSIVE search(_, _, _, _)
search(xb, q, k, taken) ==
  IF k = 0 THEN <<>>
  ELSE LET left == (1..Len(xb)) \ taken
       IN IF left = {} THEN <<0>> \o search(xb, q, k - 1, taken)
          ELSE LET best == CHOOSE i \in left :
                             \A j \in left \ {i} : RanksBefore(xb, q, i, j)
               IN <<best>> \o search(xb, q, k - 1, taken \cup {best})

\* What retrieve_relevant_chunks returns when it does not reach the index.
NoChunks(searched) ==
  [raised |-> FALSE, chunks |-> <<>>, indices |-> <<>>, searched |-> searched]

\* Python's chunks[i] for a 0-based label i >= -1 within the list, the label
\* kept here as i + 1: label -1 is the last chunk.
Subscript(chunks, label) == IF label = 0 THEN chunks[Len(chunks)] ELSE chunks[label]

\* retrieve_relevant_chunks searching for top_k rows, not min(top_k, len(chunks)).
retrieve_relevant_chunks_unclamped(ss, query, top_k, embed_ok) ==
  IF ss.vector_store.none THEN NoChunks(FALSE)
  ELSE IF "chunks" \notin ss.keys
  THEN [NoChunks(FALSE) EXCEPT !.raised = TRUE]
  ELSE IF Len(ss.chunks) = 0 THEN NoChunks(FALSE)
  ELSE IF ~embed_ok THEN NoChunks(FALSE)
  ELSE LET found == search(ss.vector_store.xb, Encode(query),
                           Min(top_k, Len(ss.chunks)), {})
           indices == [r \in 1..top_k |->
                         IF r <= Len(found) THEN found[r] ELSE 0]
       IN [raised |-> FALSE,
           chunks |-> [r \in 1..top_k |-> Subscript(ss.chunks, indices[r])],
           indices |-> indices,
           searched |-> TRUE]

\* retrieve_relevant_chunks handing the chunks back in corpus order.
retrieve_relevant_chunks_in_corpus_order(ss, query, top_k, embed_ok) ==
  IF ss.vector_store.none THEN NoChunks(FALSE)
  ELSE IF "chunks" \notin ss.keys
  THEN [NoChunks(FALSE) EXCEPT !.raised = TRUE]
  ELSE IF Len(ss.chunks) = 0 THEN NoChunks(FALSE)
  ELSE IF ~embed_ok THEN NoChunks(FALSE)
  ELSE LET k == Min(top_k, Len(ss.chunks))
           indices == SortSeq(search(ss.vector_store.xb, Encode(query), k, {}),
                              LAMBDA a, b : a < b)
       IN [raised |-> FALSE,
           chunks |-> [r \in 1..Len(indices) |-> ss.chunks[indices[r]]],
           indices |-> indices,
           searched |-> TRUE]

\* A label past the end of the chunk list raises IndexError, which the
\* except branch turns into an empty result.
retrieve_relevant_chunks(ss, query, top_k, embed_ok) ==
  IF ss.vector_store.none THEN NoChunks(FALSE)
  ELSE IF "chunks" \notin ss.keys
  THEN [NoChunks(FALSE) EXCEPT !.raised = TRUE]
  ELSE IF Len(ss.chunks) = 0 THEN NoChunks(FALSE)
  ELSE IF ~embed_ok THEN NoChunks(FALSE)
  ELSE LET k == Min(top_k, Len(ss.chunks))
           indices == search(ss.vector_store.xb, Encode(query), k, {})
       IN IF \E r \in 1..Len(indices) : indices[r] > Len(ss.chunks)
          THEN NoChunks(TRUE)
          ELSE [raised |-> FALSE,
                chunks |-> [r \in 1..Len(indices) |->
                              Subscript(ss.chunks, indices[r])],
                indices |-> indices,
                searched |-> TRUE]

Separator == "\n\n"

\* The label counting from 0, as enumerate does.
ContextEntryFromZero(i, chunk) == <<"[Context " \o ToString(i) \o "]: ">> \o chunk

\* f"[Context {i+1}]: {chunk}"
ContextEntry(i, chunk) == <<"[Context " \o ToString(i + 1) \o "]: ">> \o chunk

\* "\n\n".join of the entries from the i-th on (i counts from 0, as enumerate).
RECURSIVE JoinEntries(_, _)
JoinEntries(chunks, i) ==
  IF i >= Len(chunks) THEN <<>>
  ELSE (IF i > 0 THEN <<Separator>> ELSE <<>>)
       \o ContextEntry(i, chunks[i + 1]) \o JoinEntries(chunks, i + 1)

get_context_for_query(ss, query, embed_ok) ==
  LET r == retrieve_relevant_chunks(ss, query, TOP_K_CHUNKS, embed_ok)
  IN r @@
     [context |-> IF r.raised THEN <<>>
                  ELSE IF r.chunks = <<>> THEN NoContextMessage
                  ELSE JoinEntries(r.chunks, 0)]

\* The callers' test of a context, RAGTool.execute and
\* extract_services_from_pdfs: "No relevant information" in context.
is_no_information(context) == \E i \in 1..Len(context) : context[i] = Marker

-----------------------------------------------------------------------------
(* process_pdfs step by step: the points at which another call on the same *)
(* st.session_state can run before the rebuild has finished                *)

\* The stored corpus of a session.
Corpus(ss) == <<ss.vector_store, ss.chunks, ss.chunk_embeddings>>

\* process_pdfs lines 78-91 with the corpus thrown away before the loop.
begin_ingest_discards(ss, files, read) ==
  LET loop == ProcessLoop(files, 1, <<>>, read)
  IN [ss |-> [ss EXCEPT !.vector_store = None, !.chunks = <<>>,
                        !.chunk_embeddings = None],
      read |-> loop.read, all_chunks |-> loop.all_chunks]

\* process_pdfs lines 78-91: the extraction loop works on local variables and
\* on the file objects only.
begin_ingest(ss, files, read) ==
  LET loop == ProcessLoop(files, 1, <<>>, read)
  IN [ss |-> ss, read |-> loop.read, all_chunks |-> loop.all_chunks]

\* build_vector_store line 69, line 70 and line 71: one assignment each.
store_index(ss, embeddings) == [ss EXCEPT !.vector_store = Some(embeddings)]
store_chunks(ss, chunks) == [ss EXCEPT !.chunks = chunks]
store_embeddings(ss, embeddings) == [ss EXCEPT !.chunk_embeddings = Some(embeddings)]

-----------------------------------------------------------------------------
(* RAGTool (app/tools.py) *)

\* What the Groq collaborator does in one turn: get_llm() raises
\* ("unconfigured"), or it returns a client whose invoke raises or answers.
LlmOutcomes == {"unconfigured", "raises", "answers"}

NoDocumentsMessage ==
  <<"I don't have any documents loaded yet.",
    " Please upload PDF files first to enable document-based answers.">>

SearchErrorPrefix == "I encountered an error while searching the documents: "

\* response.content of the answering LLM.
Answer == <<"answer">>

\* The outcome of RAGTool.execute: what it returns, whether self.llm.invoke
\* was called, and the context and chunks it had retrieved by then.
Executed(reply, invoked, r) ==
  [reply |-> reply, invoked |-> invoked, context |-> r.context,
   chunks |-> r.chunks]

NothingRetrieved == [context |-> <<>>, chunks |-> <<>>]

\* RAGTool.execute forwarding every assembled context to the LLM.
RAGTool_execute_forwards(ss, query, embed_ok, llm) ==
  IF ss.vector_store.none
  THEN Executed(NoDocumentsMessage, FALSE, NothingRetrieved)
  ELSE LET r == get_context_for_query(ss, query, embed_ok)
       IN IF r.raised
          THEN Executed(<<SearchErrorPrefix, "AttributeError">>, FALSE,
                        NothingRetrieved)
          ELSE IF llm = "raises"
          THEN Executed(<<SearchErrorPrefix, "APIError">>, TRUE, r)
          ELSE Executed(Answer, TRUE, r)

\* RAGTool.execute on a tool whose constructor returned: ss is the session
\* state after RAGPipeline(), llm what self.llm.invoke does.
RAGTool_execute(ss, query, embed_ok, llm) ==
  IF ss.vector_store.none
  THEN Executed(NoDocumentsMessage, FALSE, NothingRetrieved)
  ELSE LET r == get_context_for_query(ss, query, embed_ok)
       IN IF r.raised
          THEN Executed(<<SearchErrorPrefix, "AttributeError">>, FALSE,
                        NothingRetrieved)
          ELSE IF is_no_information(r.context)
          THEN Executed(r.context, FALSE, r)
          ELSE IF llm = "raises"
          THEN Executed(<<SearchErrorPrefix, "APIError">>, TRUE, r)
          ELSE Executed(Answer, TRUE, r)

-----------------------------------------------------------------------------
(* The service catalog (app/booking_flow.py) *)

DefaultServices ==
  <<"General Consultation", "Cardiology Consultation",
    "Dermatology Consultation", "Pediatrics Consultation",
    "Orthopedics Consultation", "Neurology Consultation",
    "Gynecology Consultation">>

\* What the tests of the parsing loop find in one line of a chunk: the two
\* sides of the '-' of a line holding 'Dr.', and the $amount of a line holding
\* 'Fee:' or 'Consultation'; "" where the test fails.
LineFacts(line) ==
  CASE line = "Dr. Alice - Cardiology" ->
         [doctor |-> "Dr. Alice", specialty |-> "Cardiology", fee |-> ""]
    [] line = "Dr. Bob - Dermatology" ->
         [doctor |-> "Dr. Bob", specialty |-> "Dermatology", fee |-> ""]
    [] line = "Fee: $150" -> [doctor |-> "", specialty |-> "", fee |-> "$150"]
    [] OTHER -> [doctor |-> "", specialty |-> "", fee |-> ""]

\* A token of a context is a label when it opens the context or follows a
\* separator; the label shares its line with the first line of its chunk.
IsLabel(context, i) == i = 1 \/ context[i - 1] = Separator

\* The loop over context.split('\n'), each token of a chunk a line of its
\* own: cur holds current_doctor, current_specialty and current_fee, "" for
\* None.
RECURSIVE ParseLines(_, _, _, _)
ParseLines(context, i, cur, services) ==
  IF i > Len(context) THEN services
  ELSE IF IsLabel(context, i) \/ context[i] = Separator
  THEN ParseLines(context, i + 1, cur, services)
  ELSE LET facts == LineFacts(context[i])
           prefix == IF IsLabel(context, i - 1) THEN context[i - 1] ELSE ""
           named == IF facts.doctor # ""
                    THEN [cur EXCEPT !.doctor = prefix \o facts.doctor,
                                     !.specialty = facts.specialty]
                    ELSE cur
           priced == IF facts.fee # "" THEN [named EXCEPT !.fee = facts.fee]
                     ELSE named
           service_name == priced.specialty \o " - " \o priced.doctor
                           \o " (" \o priced.fee \o ")"
       IN IF priced.doctor # "" /\ priced.specialty # "" /\ priced.fee # ""
          THEN ParseLines(context, i + 1,
                          [doctor |-> "", specialty |-> "", fee |-> ""],
                          IF \E j \in 1..Len(services) : services[j] = service_name
                          THEN services ELSE Append(services, service_name))
          ELSE ParseLines(context, i + 1, priced, services)

ParsedServices(context) ==
  ParseLines(context, 1, [doctor |-> "", specialty |-> "", fee |-> ""], <<>>)

\* The outcome of extract_services_from_pdfs: the session state it leaves,
\* the list it returns, and the retrieval it made.
Services(ss, services, r) ==
  [ss |-> ss, services |-> services, context |-> r.context, chunks |-> r.chunks]

\* extract_services_from_pdfs returning whatever the loop gathered.
extract_services_from_pdfs_unguarded(ss, embed_ok) ==
  IF ss.vector_store.none THEN Services(ss, DefaultServices, NothingRetrieved)
  ELSE LET init == RAGPipeline_init(ss)
           r == get_context_for_query(init, QueryServices, embed_ok)
       IN IF r.raised THEN Services(init, DefaultServices, NothingRetrieved)
          ELSE IF is_no_information(r.context)
          THEN Services(init, DefaultServices, r)
          ELSE Services(init, ParsedServices(r.context), r)

\* extract_services_from_pdfs: every exception of the body ends in the
\* except branch, which returns the defaults.
extract_services_from_pdfs(ss, embed_ok) ==
  IF ss.vector_store.none THEN Services(ss, DefaultServices, NothingRetrieved)
  ELSE LET init == RAGPipeline_init(ss)
           r == get_context_for_query(init, QueryServices, embed_ok)
       IN IF r.raised THEN Services(init, DefaultServices, NothingRetrieved)
          ELSE IF is_no_information(r.context)
          THEN Services(init, DefaultServices, r)
          ELSE LET services == ParsedServices(r.context)
               IN IF services = <<>> THEN Services(init, DefaultServices, r)
                  ELSE Services(init, services, r)

-----------------------------------------------------------------------------
(* The "Load Samples" button (app/main.py) *)

\* The loop over sample_pdfs from sample i on: each sample that exists is read
\* into a new file object and handed to process_pdfs as a batch of its own,
\* and the counts are added up; an exception ends the handler in its except
\* branch.  The embedding of sample fail_at raises.
RECURSIVE load_samples(_, _, _, _, _)
load_samples(ss, existing, i, chunks_count, fail_at) ==
  IF i > Len(SamplePdfs)
  THEN [ss |-> ss, chunks_count |-> chunks_count,
        shown |-> IF chunks_count > 0 THEN "success" ELSE "warning"]
  ELSE IF i \notin existing
  THEN load_samples(ss, existing, i + 1, chunks_count, fail_at)
  ELSE LET r == process_pdfs(ss, <<SamplePdfs[i]>>, {}, i # fail_at)
       IN IF r.err # "none"
          THEN [ss |-> r.ss, chunks_count |-> chunks_count, shown |-> "error"]
          ELSE load_samples(r.ss, existing, i + 1, chunks_count + r.ret, fail_at)

-----------------------------------------------------------------------------
(* The dialogue layer (app/chat_logic.py, app/main.py) *)

\* What the classifying LLM does when detect_intent invokes it.
IntentOutcomes == {"raises", "BOOKING", "QUERY"}

\* What the answering LLM does when RAGTool.execute invokes it.
AnswerOutcomes == {"raises", "answers"}

\* detect_intent: get_llm() comes first, so an unavailable LLM gives QUERY
\* whatever the booking state; then a booking under way gives BOOKING; then
\* the classifier decides, and its failure gives QUERY.
detect_intent(configured, in_booking, awaiting_confirmation, classifier) ==
  IF ~configured THEN "QUERY"
  ELSE IF in_booking /\ ~awaiting_confirmation THEN "BOOKING"
  ELSE IF classifier = "BOOKING" THEN "BOOKING"
  ELSE "QUERY"

GenericErrorMessage(e) ==
  <<"I encountered an error: ", e,
    ". Please ensure documents are loaded and API keys are configured.">>

\* The else branch of process_user_message: RAGTool() and its execute inside
\* one try, whose except branch answers with the generic error message.
\* ss is the session state after RAGPipeline().
answer_query(ss, query, embed_ok, configured, answerer) ==
  IF ~configured
  THEN Executed(GenericErrorMessage("GROQ_API_KEY not found"), FALSE,
                NothingRetrieved)
  ELSE RAGTool_execute(ss, query, embed_ok, answerer)

-----------------------------------------------------------------------------
(* The calls *)

\* The user sessions that book.
Sessions == {1, 2}

\* initialize_booking_state and reset_booking_state: no field, no intent, no
\* confirmation awaited.  None is "" for a text, <<>> for a sequence of
\* characters and for a time, 0 for a date.
NoBooking ==
  [name |-> "", email |-> <<>>, phone |-> <<>>, service |-> "", date |-> 0,
   time |-> <<>>, intent |-> "none", awaiting_confirmation |-> FALSE]

\* A session after initialize_session_state: its booking state, the widget
\* to show, and no confirming turn under way.
NewSession ==
  [booking_state |-> NoBooking, show_widget |-> "none", saving |-> FALSE,
   response |-> <<>>, found |-> <<>>]

\* last_uploaded_files of a new session, and the lists of names that the
\* session has ingested (a record of what happened, not read by the code).
NoUploads == [last_uploaded_files |-> <<>>, ingested |-> {}]

EmptyTables == [customers |-> <<>>, bookings |-> <<>>]

-----------------------------------------------------------------------------
(* Slot filling (app/booking_flow.py) *)

PHONE_MIN_LENGTH == 10

\* The characters of the values below; a value typed by the user is the
\* sequence of its characters.
Letters == {"a", "b", "c", "e", "l", "m", "o", "r", "t"}
Digits == {"0", "1", "2", "5"}

\* EMAIL_PATTERN: ^[a-zA-Z0-9._%+-]+@[a-zA-Z0-9.-]+\.[a-zA-Z]{2,}$
LocalChars == Letters \cup Digits \cup {".", "_", "%", "+", "-"}
DomainChars == Letters \cup Digits \cup {".", "-"}

\* re.match(EMAIL_PATTERN, email): some '@' and some later '.' split the value
\* into a local part, a domain and a top-level part of two letters or more.
MatchesEmailPattern(email) ==
  \E i, j \in 1..Len(email) :
    /\ email[i] = "@" /\ email[j] = "." /\ 1 < i /\ i + 1 < j /\ j + 2 <= Len(email)
    /\ \A k \in 1..(i - 1) : email[k] \in LocalChars
    /\ \A k \in (i + 1)..(j - 1) : email[k] \in DomainChars
    /\ \A k \in (j + 1)..Len(email) : email[k] \in Letters

validate_email(email) == email # <<>> /\ MatchesEmailPattern(email)

\* re.sub(r'[\s\-\(\)\+]', '', phone): the value without its blanks, dashes,
\* brackets and plus signs.
IsKept(c) == c \notin {" ", "-", "(", ")", "+"}
digits_only(phone) == SelectSeq(phone, IsKept)

IsDigit(c) == c \in Digits

validate_phone(phone) ==
  phone # <<>> /\ Len(digits_only(phone)) >= PHONE_MIN_LENGTH

EmailGood == <<"a", "@", "b", ".", "c", "o">>
EmailNoAt == <<"a", ".", "c", "o">>
EmailShortTld == <<"a", "@", "b", ".", "c">>

PhoneTen == <<"5", "5", "5", "0", "1", "2", "0", "1", "2", "0">>
PhoneDashed == <<"5", "5", "5", "-", "0", "1", "2", "-", "0", "1", "2", "0">>
PhoneNine == <<"5", "5", "5", "-", "0", "1", "2", "-", "0", "1", "2">>
PhoneWords == <<"c", "a", "l", "l", " ", "m", "e", " ", "l", "a", "t", "e", "r">>

required_fields == <<"name", "email", "phone", "service", "date", "time">>

\* get_missing_fields: the required fields that are None or empty, in order.
\* get_missing_fields with a required list that leaves the time out.
get_missing_fields_without_time(booking_state) ==
  LET Missing(field) == field # "time" /\ booking_state[field] = NoBooking[field]
  IN SelectSeq(required_fields, Missing)

get_missing_fields(booking_state) ==
  LET IsMissing(field) == booking_state[field] = NoBooking[field]
  IN SelectSeq(required_fields, IsMissing)

\* What extract_field_from_message can give for a field, None included: the
\* LLM's reading of the user's message.
Extractions(field) ==
  CASE field = "name" -> {"", "Ann"}
    [] field = "email" -> {<<>>, EmailGood, EmailNoAt, EmailShortTld}
    [] field = "phone" -> {<<>>, PhoneTen, PhoneDashed, PhoneNine, PhoneWords}
    [] OTHER -> {""}

\* extract_field_from_message: None when get_llm or the LLM raises.
extract_field_from_message(configured, field, extraction) ==
  IF configured THEN extraction ELSE NoBooking[field]

get_next_field_prompt(field) ==
  CASE field = "name" -> "What's your full name?"
    [] field = "email" -> "What's your email address?"
    [] field = "phone" -> "What's your phone number?"
    [] field = "service" -> "Please select one."
    [] field = "date" -> "I'll show you a calendar."
    [] field = "time" -> "I'll show you the available time slots."

WidgetFields == {"service", "date", "time"}

Collected(booking_state, response, widget) ==
  [booking_state |-> booking_state, response |-> response, widget |-> widget]

\* Where collect_booking_info_enhanced goes once the current field is stored.
AfterStore(booking_state) ==
  LET remaining_missing == get_missing_fields(booking_state)
  IN IF remaining_missing = <<>> THEN Collected(booking_state, "", "none")
     ELSE LET next_field == remaining_missing[1]
          IN Collected(booking_state, get_next_field_prompt(next_field),
                       IF next_field \in WidgetFields THEN next_field ELSE "none")

\* collect_booking_info_enhanced: extracted is what extract_field_from_message
\* returned for the first missing field.
collect_booking_info_enhanced(state, extracted) ==
  LET booking_state == [state EXCEPT !.intent = "booking"]
      missing_fields == get_missing_fields(booking_state)
  IN IF missing_fields = <<>> THEN Collected(booking_state, "", "none")
     ELSE LET current_field == missing_fields[1]
          IN IF current_field \in WidgetFields
             THEN Collected(booking_state, get_next_field_prompt(current_field),
                            current_field)
             ELSE IF extracted = NoBooking[current_field]
             THEN Collected(booking_state, get_next_field_prompt(current_field),
                            "none")
             ELSE IF current_field = "email" /\ ~validate_email(extracted)
             THEN Collected(booking_state, "Please provide a valid email address",
                            "none")
             ELSE IF current_field = "phone" /\ ~validate_phone(extracted)
             THEN Collected(booking_state, "Please provide a valid phone number",
                            "none")
             ELSE AfterStore([booking_state EXCEPT ![current_field] = extracted])

-----------------------------------------------------------------------------
(* The tables (db/database.py) and the time slots *)

\* Rows the bookings table is let grow to.
MaxBookings == 2

\* Slots of the day, days of the calendar and services of the catalog that the
\* widgets offer.
MaxSlots == 2
MaxDays == 1
MaxServices == 1

MORNING_SLOTS == << <<9, 0>>, <<10, 0>>, <<11, 0>>, <<12, 0>> >>
AFTERNOON_SLOTS == << <<13, 0>>, <<14, 0>>, <<15, 0>>, <<16, 0>> >>
EVENING_SLOTS == << <<17, 0>>, <<18, 0>>, <<19, 0>> >>
ALL_TIME_SLOTS ==
  SubSeq(MORNING_SLOTS \o AFTERNOON_SLOTS \o EVENING_SLOTS, 1, MaxSlots)

\* The dates the calendar offers, counted in days from today.
Dates == 1..MaxDays

\* A time as the bookings table gives it back: with its seconds.
StoredTime(time) == time \o <<0>>

\* strptime with "%H:%M:%S" or "%H:%M" by the length, then strftime("%H:%M"):
\* the hour and the minute of a time that has more than those two.
normalized_time(time_str) ==
  IF Len(time_str) > 2 THEN SubSeq(time_str, 1, 2) ELSE time_str

\* get_booked_time_slots: the times of every row of the date, whatever its
\* status; no time at all when the query raises.
get_booked_time_slots(tables, selected_date, db_ok) ==
  IF ~db_ok THEN {}
  ELSE {normalized_time(tables.bookings[i].time) :
          i \in {j \in 1..Len(tables.bookings) :
                   tables.bookings[j].date = selected_date}}

\* get_or_create_customer line 32: the customer_ids of the rows of the email.
select_customers(tables, email) ==
  LET Has(row) == row.email = email
      rows == SelectSeq(tables.customers, Has)
  IN [i \in 1..Len(rows) |-> rows[i].customer_id]

\* get_or_create_customer lines 34-46 after the select gave found: the id of
\* the first row found, or a row inserted with the next id.
create_customer_if_none(tables, found, name, email, phone) ==
  IF found # <<>> THEN [tables |-> tables, customer_id |-> found[1]]
  ELSE LET id == Len(tables.customers) + 1
       IN [tables |-> [tables EXCEPT !.customers =
                         Append(@, [customer_id |-> id, name |-> name,
                                    email |-> email, phone |-> phone])],
           customer_id |-> id]

\* create_booking with the insert sent twice.
create_booking_twice(tables, customer_id, booking_type, date, time, status) ==
  LET id == Len(tables.bookings) + 2
      row(n) == [id |-> n, customer_id |-> customer_id,
                 booking_type |-> booking_type, date |-> date,
                 time |-> time \o <<0>>, status |-> status]
  IN [tables |-> [tables EXCEPT !.bookings = @ \o <<row(id - 1), row(id)>>],
      booking_id |-> id]

\* create_booking: one row inserted, whatever the table holds.
create_booking(tables, customer_id, booking_type, date, time, status) ==
  LET id == Len(tables.bookings) + 1
  IN [tables |-> [tables EXCEPT !.bookings =
                    Append(@, [id |-> id, customer_id |-> customer_id,
                               booking_type |-> booking_type, date |-> date,
                               time |-> StoredTime(time), status |-> status])],
      booking_id |-> id]

-----------------------------------------------------------------------------
(* Confirmation (app/booking_flow.py) *)

\* Python's in on strings: word is a run of consecutive characters of text.
Contains(text, word) ==
  \E i \in 0..(Len(text) - Len(word)) : SubSeq(text, i + 1, i + Len(word)) = word

\* str.lower on the characters of the responses.
LowerChar(c) == CASE c = "N" -> "n" [] c = "Y" -> "y" [] OTHER -> c
lower(text) == [i \in 1..Len(text) |-> LowerChar(text[i])]

RECURSIVE strip(_)
strip(text) ==
  IF text = <<>> THEN text
  ELSE IF Head(text) = " " THEN strip(Tail(text))
  ELSE IF text[Len(text)] = " " THEN strip(SubSeq(text, 1, Len(text) - 1))
  ELSE text

Yes == <<"y", "e", "s">>
Confirm == <<"c", "o", "n", "f", "i", "r", "m">>
Correct == <<"c", "o", "r", "r", "e", "c", "t">>
No == <<"n", "o">>
Incorrect == <<"i", "n">> \o Correct
Wrong == <<"w", "r", "o", "n", "g">>

\* What the user types when asked to confirm.
Responses ==
  {Yes, <<"Y", "e", "s">>, Confirm, No, <<" ", "N", "o", " ">>, Incorrect, Wrong,
   <<"l", "a", "t", "e", "r">>}

\* handle_booking_confirmation lines 306-345: the branch a response takes.
confirmation_branch(user_response) ==
  LET user_response_lower == strip(lower(user_response))
  IN IF \/ Contains(user_response_lower, Yes)
        \/ Contains(user_response_lower, Confirm)
        \/ Contains(user_response_lower, Correct)
     THEN "save"
     ELSE IF \/ Contains(user_response_lower, No)
             \/ Contains(user_response_lower, Incorrect)
             \/ Contains(user_response_lower, Wrong)
     THEN "reset"
     ELSE "ask"

\* The record of a call that has not filled in its outcome.
Call(op) ==
  [op |-> op, files |-> <<>>, query |-> <<>>, top_k |-> 0, embed_ok |-> TRUE,
   pre |-> session_state, pre_read |-> consumed,
   err |-> "none", ret |-> 0, raised |-> FALSE,
   chunks |-> <<>>, indices |-> <<>>, searched |-> FALSE, context |-> <<>>,
   text |-> <<>>, llm |-> "none", invoked |-> FALSE, reply |-> <<>>,
   services |-> <<>>]

\* No process_pdfs call is under way.
Idle == [step |-> "idle", files |-> <<>>, all_chunks |-> <<>>,
         embeddings |-> <<>>, pre |-> Blank]

\* A new session: main() has run initialize_session_state, or a RAGPipeline
\* has been constructed on the blank session.
Init ==
  /\ \/ session_state = initialize_session_state(Blank) /\ model_loads = 0
     \/ session_state = RAGPipeline_init(Blank) /\ model_loads = ModelLoads(Blank)
  /\ consumed = {}
  /\ last = [Call("start") EXCEPT !.pre = Blank]
  /\ peer_models = {}
  /\ pending = Idle
  /\ booking = [s \in Sessions |-> NewSession]
  /\ db = EmptyTables
  /\ uploader = NoUploads

\* RAGPipeline() in this session: the model is loaded when the session has none.
Construct == model_loads' = model_loads + ModelLoads(session_state)

\* The user hands in document d again: a new file object, not yet read.
Upload(d) ==
  /\ d \in consumed
  /\ consumed' = consumed \ {d}
  /\ last' = Call("upload")
  /\ UNCHANGED <<session_state, model_loads, peer_models, pending,
                 booking, db, uploader>>

\* RAGPipeline().extract_text_from_pdf(d)
ExtractText(d) ==
  LET r == extract_text_from_pdf(d, consumed)
  IN /\ session_state' = RAGPipeline_init(session_state)
     /\ consumed' = consumed \cup {d}
     /\ last' = [Call("extract_text_from_pdf") EXCEPT !.files = <<d>>,
                   !.err = IF r.ok THEN "none" ELSE "ExtractionFailed",
                   !.text = r.text]
     /\ Construct
     /\ UNCHANGED <<peer_models, pending, booking, db, uploader>>

\* The chunk lists handed to build_vector_store on its own, each with the
\* embeddings of its chunks.
BuildInputs == {<<>>, <<TextBob>>}

\* RAGPipeline().build_vector_store(chunks, create_embeddings(chunks)): the
\* call returns None whatever the input.
BuildVectorStore(chunks) ==
  /\ session_state' = build_vector_store(RAGPipeline_init(session_state), chunks,
                                         create_embeddings(chunks))
  /\ last' = [Call("build_vector_store") EXCEPT !.chunks = chunks]
  /\ Construct
  /\ UNCHANGED <<consumed, peer_models, pending, booking, db, uploader>>

\* RAGPipeline().process_pdfs(files)
ProcessPdfs(files, embed_ok) ==
  LET r == process_pdfs(RAGPipeline_init(session_state), files, consumed, embed_ok)
  IN /\ session_state' = r.ss
     /\ consumed' = r.read
     /\ last' = [Call("process_pdfs") EXCEPT !.files = files,
                    !.embed_ok = embed_ok, !.err = r.err, !.ret = r.ret]
     /\ Construct
     /\ UNCHANGED <<peer_models, pending, booking, db, uploader>>

\* RAGPipeline().retrieve_relevant_chunks(query, top_k)
Retrieve(query, top_k, embed_ok) ==
  LET r == retrieve_relevant_chunks(RAGPipeline_init(session_state), query,
                                    top_k, embed_ok)
  IN /\ session_state' = RAGPipeline_init(session_state)
     /\ last' = [Call("retrieve") EXCEPT !.query = query, !.top_k = top_k,
                    !.embed_ok = embed_ok, !.raised = r.raised,
                    !.chunks = r.chunks, !.indices = r.indices,
                    !.searched = r.searched]
     /\ Construct
     /\ UNCHANGED <<consumed, peer_models, pending, booking, db, uploader>>

\* RAGPipeline().get_context_for_query(query)
GetContextForQuery(query, embed_ok) ==
  LET r == get_context_for_query(RAGPipeline_init(session_state), query, embed_ok)
  IN /\ session_state' = RAGPipeline_init(session_state)
     /\ last' = [Call("get_context") EXCEPT !.query = query,
                    !.top_k = TOP_K_CHUNKS, !.embed_ok = embed_ok,
                    !.raised = r.raised, !.chunks = r.chunks,
                    !.indices = r.indices, !.searched = r.searched,
                    !.context = r.context]
     /\ Construct
     /\ UNCHANGED <<consumed, peer_models, pending, booking, db, uploader>>

\* RAGTool().execute(query, history): the constructor builds a RAGPipeline and
\* then asks for the LLM client, which raises when none is configured.
RagToolExecute(query, embed_ok, llm) ==
  LET ss == RAGPipeline_init(session_state)
  IN /\ session_state' = ss
     /\ Construct
     /\ IF llm = "unconfigured"
        THEN last' = [Call("rag_execute") EXCEPT !.query = query,
                        !.embed_ok = embed_ok, !.llm = llm, !.raised = TRUE]
        ELSE LET e == RAGTool_execute(ss, query, embed_ok, llm)
             IN last' = [Call("rag_execute") EXCEPT !.query = query,
                           !.embed_ok = embed_ok, !.llm = llm,
                           !.reply = e.reply, !.invoked = e.invoked,
                           !.context = e.context, !.chunks = e.chunks]
     /\ UNCHANGED <<consumed, peer_models, pending, booking, db, uploader>>

\* process_user_message on a turn it handles as a question: no confirmation
\* is awaited and detect_intent says QUERY.
ProcessUserQuery(query, embed_ok, configured, in_booking, classifier, answerer) ==
  /\ detect_intent(configured, in_booking, FALSE, classifier) = "QUERY"
  /\ LET ss == RAGPipeline_init(session_state)
         e == answer_query(ss, query, embed_ok, configured, answerer)
     IN /\ session_state' = ss
        /\ last' = [Call("process_user_message") EXCEPT !.query = query,
                      !.embed_ok = embed_ok,
                      !.llm = IF configured THEN answerer ELSE "unconfigured",
                      !.reply = e.reply, !.invoked = e.invoked,
                      !.context = e.context, !.chunks = e.chunks]
  /\ Construct
  /\ UNCHANGED <<consumed, peer_models, pending, booking, db, uploader>>

\* extract_services_from_pdfs()
ExtractServices(embed_ok) ==
  LET e == extract_services_from_pdfs(session_state, embed_ok)
  IN /\ session_state' = e.ss
     /\ last' = [Call("extract_services_from_pdfs") EXCEPT
                   !.query = QueryServices, !.embed_ok = embed_ok,
                   !.services = e.services, !.context = e.context,
                   !.chunks = e.chunks]
     /\ model_loads' = IF session_state.vector_store.none THEN model_loads
                       ELSE model_loads + ModelLoads(session_state)
     /\ UNCHANGED <<consumed, peer_models, pending, booking, db, uploader>>

\* A click on "Load Samples" when the samples in existing are on disk.
LoadSamples(existing, fail_at) ==
  LET l == load_samples(RAGPipeline_init(session_state), existing, 1, 0, fail_at)
  IN /\ session_state' = l.ss
     /\ last' = [Call("load_samples") EXCEPT
                   !.files = [i \in 1..Len(SamplePdfs) |-> i \in existing],
                   !.err = l.shown, !.ret = l.chunks_count]
     /\ Construct
     /\ UNCHANGED <<consumed, peer_models, pending, booking, db, uploader>>

TopKs == (1..MaxTopK) \cup {TOP_K_CHUNKS}

Next ==
  \/ \E d \in DocIds : Upload(d)
  \/ \E files \in Batches(MaxBatch), embed_ok \in BOOLEAN :
       ProcessPdfs(files, embed_ok)
  \/ \E query \in Queries, top_k \in TopKs, embed_ok \in BOOLEAN :
       Retrieve(query, top_k, embed_ok)
  \/ \E query \in Queries, embed_ok \in BOOLEAN :
       GetContextForQuery(query, embed_ok)

Spec == Init /\ [][Next]_vars

-----------------------------------------------------------------------------
(* The application around the pipeline: the sidebar, the question route of *)
(* the chat, the service catalog, and the pipeline's methods one by one    *)

\* The uploads of a session that sends one file at a time: the two documents
\* with text and the blank one.
SingleUploads == {<<1>>, <<2>>, <<4>>}

NextApp ==
  \/ \E d \in DocIds : Upload(d)
  \/ \E d \in DocIds : ExtractText(d)
  \/ \E chunks \in BuildInputs : BuildVectorStore(chunks)
  \/ \E files \in SingleUploads, embed_ok \in BOOLEAN :
       ProcessPdfs(files, embed_ok)
  \/ \E query \in Queries, embed_ok \in BOOLEAN, llm \in LlmOutcomes :
       RagToolExecute(query, embed_ok, llm)
  \/ \E query \in Queries, embed_ok, configured, in_booking \in BOOLEAN,
        classifier \in IntentOutcomes, answerer \in AnswerOutcomes :
       ProcessUserQuery(query, embed_ok, configured, in_booking, classifier,
                        answerer)
  \/ \E embed_ok \in BOOLEAN : ExtractServices(embed_ok)
  \/ \E existing \in SUBSET (1..Len(SamplePdfs)), fail_at \in 0..Len(SamplePdfs) :
       LoadSamples(existing, fail_at)

SpecApp == Init /\ [][NextApp]_vars

-----------------------------------------------------------------------------
(* The booking dialogue of the chat page (app/main.py), per user session *)

\* The record of a turn or widget action of session s.
Turn(op, s) ==
  [op |-> op, session |-> s, before |-> booking[s].booking_state,
   response |-> <<>>, customer_id |-> 0, created |-> 0, emailed |-> FALSE,
   reply |-> "none"]

Rag == <<session_state, consumed, model_loads, peer_models, pending, uploader>>

\* process_user_message when detect_intent says BOOKING: the slot-filling
\* step, the widget to show, and the summary once nothing is missing.
BookingTurn(s, classifier, extraction) ==
  LET b == booking[s]
      state == b.booking_state
      in_booking == state.intent = "booking"
      missing == get_missing_fields(state)
      field == IF missing = <<>> THEN "none" ELSE missing[1]
  IN /\ ~state.awaiting_confirmation /\ ~b.saving
     /\ detect_intent(TRUE, in_booking, FALSE, classifier) = "BOOKING"
     /\ extraction \in Extractions(field)
     /\ LET c == collect_booking_info_enhanced(
                   state, extract_field_from_message(TRUE, field, extraction))
            shown == IF c.widget # "none" THEN c.widget ELSE b.show_widget
        IN IF get_missing_fields(c.booking_state) = <<>>
           THEN /\ booking' = [booking EXCEPT ![s] =
                     [b EXCEPT !.booking_state =
                                 [c.booking_state EXCEPT !.awaiting_confirmation = TRUE],
                               !.show_widget = "none"]]
                /\ last' = [Turn("booking_turn", s) EXCEPT !.reply = "summary"]
           ELSE /\ booking' = [booking EXCEPT ![s] =
                     [b EXCEPT !.booking_state = c.booking_state,
                               !.show_widget = shown]]
                /\ last' = [Turn("booking_turn", s) EXCEPT !.reply = c.response]
     /\ UNCHANGED <<Rag, db>>

\* The service widget of chat_page and its "Confirm Service" button.
ConfirmService(s, embed_ok, choice) ==
  LET b == booking[s]
      state == b.booking_state
      e == extract_services_from_pdfs(session_state, embed_ok)
  IN /\ state.intent = "booking" /\ ~state.awaiting_confirmation /\ ~b.saving
     /\ get_missing_fields(state) # <<>>
     /\ get_missing_fields(state)[1] = "service" /\ b.show_widget = "service"
     /\ choice \in 1..Min(MaxServices, Len(e.services))
     /\ LET chosen == [state EXCEPT !.service = e.services[choice]]
            remaining == get_missing_fields(chosen)
        IN booking' = [booking EXCEPT ![s] =
             IF remaining = <<>>
             THEN [b EXCEPT !.booking_state =
                              [chosen EXCEPT !.awaiting_confirmation = TRUE],
                            !.show_widget = "none"]
             ELSE [b EXCEPT !.booking_state = chosen,
                            !.show_widget = IF remaining[1] \in WidgetFields
                                            THEN remaining[1] ELSE "none"]]
     /\ session_state' = e.ss
     /\ model_loads' = IF session_state.vector_store.none THEN model_loads
                       ELSE model_loads + ModelLoads(session_state)
     /\ last' = Turn("confirm_service", s)
     /\ UNCHANGED <<consumed, peer_models, pending, uploader, db>>

\* The date widget of chat_page and its "Confirm Date" button.
ConfirmDate(s, selected_date) ==
  LET b == booking[s]
      state == b.booking_state
  IN /\ state.intent = "booking" /\ ~state.awaiting_confirmation /\ ~b.saving
     /\ get_missing_fields(state) # <<>>
     /\ get_missing_fields(state)[1] = "date" /\ b.show_widget = "date"
     /\ LET chosen == [state EXCEPT !.date = selected_date]
            remaining == get_missing_fields(chosen)
        IN booking' = [booking EXCEPT ![s] =
             IF remaining = <<>>
             THEN [b EXCEPT !.booking_state =
                              [chosen EXCEPT !.awaiting_confirmation = TRUE],
                            !.show_widget = "none"]
             ELSE [b EXCEPT !.booking_state = chosen,
                            !.show_widget = IF remaining[1] \in WidgetFields
                                            THEN remaining[1] ELSE "none"]]
     /\ last' = Turn("confirm_date", s)
     /\ UNCHANGED <<Rag, db>>

\* The time widget of chat_page: a click on the button of a slot that is
\* not shown as booked.
SelectTimeSlot(s, slot, db_ok) ==
  LET b == booking[s]
      state == b.booking_state
  IN /\ state.intent = "booking" /\ ~state.awaiting_confirmation /\ ~b.saving
     /\ get_missing_fields(state) # <<>>
     /\ get_missing_fields(state)[1] = "time" /\ b.show_widget = "time"
     /\ state.date # 0
     /\ slot \notin get_booked_time_slots(db, state.date, db_ok)
     /\ booking' = [booking EXCEPT ![s] =
          [b EXCEPT !.booking_state = [state EXCEPT !.time = slot,
                                                    !.awaiting_confirmation = TRUE],
                    !.show_widget = "none"]]
     /\ last' = Turn("select_time", s)
     /\ UNCHANGED <<Rag, db>>

\* The "Clear Chat History" button: reset_booking_state.
ClearChat(s) ==
  /\ ~booking[s].saving
  /\ booking' = [booking EXCEPT ![s].booking_state = NoBooking]
  /\ last' = Turn("clear_chat", s)
  /\ UNCHANGED <<Rag, db>>

\* process_user_message while awaiting confirmation, up to the select of
\* get_or_create_customer (database.py line 32): the whole turn when the
\* response does not save or the save fails before the select returns.
ConfirmLookup(s, user_response, db_ok) ==
  LET b == booking[s]
      state == b.booking_state
      branch == confirmation_branch(user_response)
      turn == [Turn("handle_booking_confirmation", s) EXCEPT
                 !.response = user_response]
  IN /\ state.awaiting_confirmation /\ ~b.saving
     /\ user_response \in Responses
     /\ CASE branch = "reset" ->
               /\ booking' = [booking EXCEPT ![s] =
                    [b EXCEPT !.booking_state = NoBooking, !.show_widget = "none"]]
               /\ last' = [turn EXCEPT !.reply = "reset"]
          [] branch = "ask" ->
               /\ booking' = [booking EXCEPT ![s].show_widget = "none"]
               /\ last' = [turn EXCEPT !.reply = "ask"]
          [] branch = "save" /\ (~db_ok \/ get_missing_fields(state) # <<>>) ->
               /\ booking' = [booking EXCEPT ![s].show_widget = "none"]
               /\ last' = [turn EXCEPT !.reply = "failed"]
          [] OTHER ->
               /\ booking' = [booking EXCEPT ![s] =
                    [b EXCEPT !.saving = TRUE, !.response = user_response,
                              !.found = select_customers(db, state.email)]]
               /\ last' = [turn EXCEPT !.op = "select_customer"]
     /\ UNCHANGED <<Rag, db>>

\* The rest of the saving turn: the insert of get_or_create_customer when the
\* select found no row, create_booking, EmailTool and reset_booking_state.
ConfirmSave(s, customer_ok, booking_ok, email_ok) ==
  LET b == booking[s]
      state == b.booking_state
      c == create_customer_if_none(db, b.found, state.name, state.email,
                                   state.phone)
      r == create_booking(c.tables, c.customer_id, state.service, state.date,
                          state.time, "confirmed")
      turn == [Turn("handle_booking_confirmation", s) EXCEPT
                 !.response = b.response]
      done == [b EXCEPT !.saving = FALSE, !.response = <<>>, !.found = <<>>,
                        !.show_widget = "none"]
  IN /\ b.saving
     /\ Len(db.bookings) < MaxBookings
     /\ IF b.found = <<>> /\ ~customer_ok
        THEN /\ db' = db
             /\ booking' = [booking EXCEPT ![s] = done]
             /\ last' = [turn EXCEPT !.reply = "failed"]
        ELSE IF ~booking_ok
        THEN /\ db' = c.tables
             /\ booking' = [booking EXCEPT ![s] = done]
             /\ last' = [turn EXCEPT !.reply = "failed",
                                     !.customer_id = c.customer_id]
        ELSE /\ db' = r.tables
             /\ booking' = [booking EXCEPT ![s] =
                  [done EXCEPT !.booking_state = NoBooking]]
             /\ last' = [turn EXCEPT !.reply = "confirmed",
                           !.customer_id = c.customer_id,
                           !.created = Len(r.tables.bookings) - Len(db.bookings),
                           !.emailed = email_ok]
     /\ UNCHANGED Rag

\* The field the next message or widget of a booking under way fills.
current_field(state) ==
  LET missing_fields == get_missing_fields(state)
  IN IF missing_fields = <<>> THEN "none" ELSE missing_fields[1]

\* What the LLM extracts from the message of a user who answers the question
\* with a valid value.
Typed(field) ==
  CASE field = "name" -> {"Ann"}
    [] field = "email" -> {EmailGood}
    [] field = "phone" -> {PhoneTen}
    [] OTHER -> {""}

Slots == {ALL_TIME_SLOTS[i] : i \in 1..Len(ALL_TIME_SLOTS)}

\* Two users at the desk at once, each in a session of their own, the LLM,
\* the database and the mail server working.
NextDesk ==
  \/ \E s \in Sessions :
       \E extraction \in Typed(current_field(booking[s].booking_state)) :
         BookingTurn(s, "BOOKING", extraction)
  \/ \E s \in Sessions, choice \in 1..MaxServices : ConfirmService(s, TRUE, choice)
  \/ \E s \in Sessions, selected_date \in Dates : ConfirmDate(s, selected_date)
  \/ \E s \in Sessions, slot \in Slots : SelectTimeSlot(s, slot, TRUE)
  \/ \E s \in Sessions, user_response \in {Yes, No} :
       ConfirmLookup(s, user_response, TRUE)
  \/ \E s \in Sessions, email_ok \in BOOLEAN : ConfirmSave(s, TRUE, TRUE, email_ok)

SpecDesk == Init /\ [][NextDesk]_vars

\* process_user_message when detect_intent says QUERY, for the booking state
\* the session is in.
QueryTurn(s, query, configured, classifier, answerer) ==
  /\ ~booking[s].booking_state.awaiting_confirmation /\ ~booking[s].saving
  /\ ProcessUserQuery(query, TRUE, configured,
                      booking[s].booking_state.intent = "booking",
                      classifier, answerer)

\* The user of the chat page.
User == 1

\* One user, every outcome of the LLM, of the database and of the mail server.
NextBooking ==
  \/ \E classifier \in IntentOutcomes :
       \E extraction \in Extractions(current_field(booking[User].booking_state)) :
         BookingTurn(User, classifier, extraction)
  \/ \E configured \in BOOLEAN, classifier \in IntentOutcomes,
        answerer \in AnswerOutcomes :
       QueryTurn(User, QueryFee, configured, classifier, answerer)
  \/ \E choice \in 1..MaxServices : ConfirmService(User, TRUE, choice)
  \/ \E selected_date \in Dates : ConfirmDate(User, selected_date)
  \/ \E slot \in Slots, db_ok \in BOOLEAN : SelectTimeSlot(User, slot, db_ok)
  \/ \E user_response \in Responses, db_ok \in BOOLEAN :
       ConfirmLookup(User, user_response, db_ok)
  \/ \E customer_ok \in BOOLEAN, booking_ok \in BOOLEAN, email_ok \in BOOLEAN :
       ConfirmSave(User, customer_ok, booking_ok, email_ok)
  \/ ClearChat(User)

SpecBooking == Init /\ [][NextBooking]_vars

-----------------------------------------------------------------------------
(* The upload section of the sidebar (app/main.py), rerun after rerun *)

\* f.name of the uploaded documents: a document handed in again in another
\* version keeps its name.
FileNames == <<"clinic.pdf", "parking.pdf", "clinic.pdf", "blank.pdf">>

\* current_files = [f.name for f in uploaded_files]
current_files(uploaded_files) ==
  [i \in 1..Len(uploaded_files) |-> FileNames[uploaded_files[i]]]

\* The upload section with the list compared to nothing.
should_process_every_rerun(uploaded_files, last_files) == uploaded_files # <<>>

\* Lines 114-118: whether the script run hands the files to process_pdfs.
should_process(uploaded_files, last_files) ==
  uploaded_files # <<>> /\ current_files(uploaded_files) # last_files

\* What the file uploader holds in a script run.
UploaderLists == {<<>>, <<1>>, <<2>>, <<3>>, <<4>>, <<1, 2>>}

\* One run of the script through the upload section, the uploader holding
\* uploaded_files.
Rerun(uploaded_files, embed_ok) ==
  LET names == current_files(uploaded_files)
      r == process_pdfs(RAGPipeline_init(session_state), uploaded_files,
                        consumed, embed_ok)
      run == [Call("rerun") EXCEPT !.files = uploaded_files,
                                   !.embed_ok = embed_ok]
                @@ [again |-> names \in uploader.ingested]
  IN IF should_process(uploaded_files, uploader.last_uploaded_files)
     THEN /\ session_state' = r.ss
          /\ consumed' = r.read
          /\ Construct
          /\ uploader' = IF r.err = "none"
                         THEN [last_uploaded_files |-> names,
                               ingested |-> uploader.ingested \cup {names}]
                         ELSE uploader
          /\ last' = [run EXCEPT !.invoked = TRUE, !.err = r.err, !.ret = r.ret]
          /\ UNCHANGED <<peer_models, pending, booking, db>>
     ELSE /\ last' = run
          /\ UNCHANGED <<session_state, consumed, model_loads, uploader,
                         peer_models, pending, booking, db>>

NextUploader ==
  \/ \E d \in DocIds : Upload(d)
  \/ \E uploaded_files \in UploaderLists, embed_ok \in BOOLEAN :
       Rerun(uploaded_files, embed_ok)

SpecUploader == Init /\ [][NextUploader]_vars

-----------------------------------------------------------------------------
(* The booking flow of users who keep answering, on a table with bookings *)

\* The dates and slots of the bookings the table holds when the users arrive.
Taken == UNION {[1..n -> Dates \X Slots] : n \in 0..MaxBookings}

\* The tables after earlier users booked the dates and slots of taken.
Booked(taken) ==
  LET earlier == create_customer_if_none(EmptyTables, <<>>, "Bob", EmailGood,
                                         PhoneTen)
      RECURSIVE Saved(_)
      Saved(n) ==
        IF n = 0 THEN earlier.tables
        ELSE create_booking(Saved(n - 1), earlier.customer_id, DefaultServices[1],
                            taken[n][1], taken[n][2], "confirmed").tables
  IN IF taken = <<>> THEN EmptyTables ELSE Saved(Len(taken))

InitFlow ==
  /\ session_state = initialize_session_state(Blank)
  /\ model_loads = 0
  /\ consumed = {}
  /\ last = [Call("start") EXCEPT !.pre = Blank]
  /\ peer_models = {}
  /\ pending = Idle
  /\ booking = [s \in Sessions |-> NewSession]
  /\ \E taken \in Taken : db = Booked(taken)
  /\ uploader = NoUploads

\* The user types a valid value for the text field that is asked for.
TypeValue(s) ==
  /\ current_field(booking[s].booking_state) \notin WidgetFields
  /\ \E extraction \in Typed(current_field(booking[s].booking_state)) :
       BookingTurn(s, "BOOKING", extraction)

\* What a user who keeps acting does next: type the value asked for, or
\* confirm the widget that is shown.
FlowStep(s) ==
  \/ TypeValue(s)
  \/ \E choice \in 1..MaxServices : ConfirmService(s, TRUE, choice)
  \/ \E selected_date \in Dates : ConfirmDate(s, selected_date)
  \/ \E slot \in Slots : SelectTimeSlot(s, slot, TRUE)

NextFlow == \E s \in Sessions : FlowStep(s)

\* Each user goes on whenever there is something the page lets them do.
SpecFlow ==
  InitFlow /\ [][NextFlow]_vars /\ \A s \in Sessions : WF_vars(FlowStep(s))

-----------------------------------------------------------------------------
(* A rebuild in steps, with retrievals in between *)

\* RAGPipeline().process_pdfs(files) up to line 94: the extraction loop, and
\* the ValueError when it gathered nothing.
BeginIngest(files) ==
  /\ pending.step = "idle"
  /\ LET b == begin_ingest(RAGPipeline_init(session_state), files, consumed)
     IN /\ session_state' = b.ss
        /\ consumed' = b.read
        /\ IF Len(b.all_chunks) = 0
           THEN /\ pending' = Idle
                /\ last' = [Call("process_pdfs") EXCEPT !.files = files,
                              !.err = "NoTextExtracted"]
           ELSE /\ pending' = [step |-> "extracted", files |-> files,
                               all_chunks |-> b.all_chunks, embeddings |-> <<>>,
                               pre |-> session_state]
                /\ UNCHANGED last
  /\ Construct
  /\ UNCHANGED <<peer_models, booking, db, uploader>>

\* process_pdfs line 98: create_embeddings, whose exception ends the call.
EmbedBatch(embed_ok) ==
  /\ pending.step = "extracted"
  /\ IF embed_ok
     THEN /\ pending' = [pending EXCEPT !.step = "embedded",
                           !.embeddings = create_embeddings(pending.all_chunks)]
          /\ UNCHANGED last
     ELSE /\ pending' = Idle
          /\ last' = [Call("process_pdfs") EXCEPT !.files = pending.files,
                        !.embed_ok = FALSE, !.err = "EncodeFailed",
                        !.pre = pending.pre, !.pre_read = {}]
  /\ UNCHANGED <<session_state, consumed, model_loads, peer_models,
                 booking, db, uploader>>

\* build_vector_store line 69.
StoreIndex ==
  /\ pending.step = "embedded"
  /\ session_state' = store_index(session_state, pending.embeddings)
  /\ pending' = [pending EXCEPT !.step = "index_stored"]
  /\ UNCHANGED <<consumed, last, model_loads, peer_models,
                 booking, db, uploader>>

\* build_vector_store line 70.
StoreChunks ==
  /\ pending.step = "index_stored"
  /\ session_state' = store_chunks(session_state, pending.all_chunks)
  /\ pending' = [pending EXCEPT !.step = "chunks_stored"]
  /\ UNCHANGED <<consumed, last, model_loads, peer_models,
                 booking, db, uploader>>

\* build_vector_store line 71, and the return of process_pdfs.
StoreEmbeddings ==
  /\ pending.step = "chunks_stored"
  /\ session_state' = store_embeddings(session_state, pending.embeddings)
  /\ pending' = Idle
  /\ last' = [Call("process_pdfs") EXCEPT !.files = pending.files,
                !.ret = Len(pending.all_chunks),
                !.pre = pending.pre, !.pre_read = {}]
  /\ UNCHANGED <<consumed, model_loads, peer_models, booking, db, uploader>>

NextRebuild ==
  \/ \E files \in SingleUploads : BeginIngest(files)
  \/ \E embed_ok \in BOOLEAN : EmbedBatch(embed_ok)
  \/ StoreIndex
  \/ StoreChunks
  \/ StoreEmbeddings
  \/ \E query \in Queries, top_k \in TopKs, embed_ok \in BOOLEAN :
       Retrieve(query, top_k, embed_ok)

SpecRebuild == Init /\ [][NextRebuild]_vars

-----------------------------------------------------------------------------
(* Several user sessions in one process *)

Peers == 1..MaxPeers

\* RAGPipeline() in another session of the process: that session has a
\* st.session_state of its own, in which the model is looked up and cached.
PeerConstructs(s) ==
  /\ model_loads' = model_loads + (IF s \in peer_models THEN 0 ELSE 1)
  /\ peer_models' = peer_models \cup {s}
  /\ last' = Call("peer_construct")
  /\ UNCHANGED <<session_state, consumed, pending, booking, db, uploader>>

NextSessions ==
  \/ \E files \in SingleUploads, embed_ok \in BOOLEAN :
       ProcessPdfs(files, embed_ok)
  \/ \E query \in Queries, embed_ok \in BOOLEAN :
       GetContextForQuery(query, embed_ok)
  \/ \E s \in Peers : PeerConstructs(s)

SpecSessions == Init /\ [][NextSessions]_vars

-----------------------------------------------------------------------------
(* What the documents hold, read off the documents themselves *)

Ready(ss) == ~ss.vector_store.none

\* The passages of pages i.. of a document, in source order.
RECURSIVE PassagesFrom(_, _)
PassagesFrom(pages, i) ==
  IF i > Len(pages) THEN <<>> ELSE pages[i].units \o PassagesFrom(pages, i + 1)

\* File object d can be extracted: its stream is unread and no page raises.
Extractable(d, read) ==
  d \notin read /\ \A i \in 1..Len(Documents[d]) : ~Documents[d][i].raises

\* The chunks file object d gives to a batch.
DocChunks(d, read) ==
  IF Extractable(d, read) THEN PassagesFrom(Documents[d], 1) ELSE <<>>

\* The chunks of files i.. of a batch of distinct file objects, in document
\* order then source order.
RECURSIVE BatchChunks(_, _, _)
BatchChunks(files, i, read) ==
  IF i > Len(files) THEN <<>>
  ELSE DocChunks(files[i], read) \o BatchChunks(files, i + 1, read)

Ingested == last.op = "process_pdfs"
IngestedOk == Ingested /\ last.err = "none"

-----------------------------------------------------------------------------
(* Claims *)

\* C1: in every state either no corpus is stored (vector_store is None) or the
\* index, the chunk list and the embedding rows have one size and row i of the
\* index is the embedding of chunks[i].
CorpusAligned ==
  \/ session_state.vector_store.none
  \/ /\ ~session_state.chunk_embeddings.none
     /\ Len(session_state.vector_store.xb) = Len(session_state.chunks)
     /\ Len(session_state.chunk_embeddings.xb) = Len(session_state.chunks)
     /\ \A i \in 1..Len(session_state.chunks) :
          /\ session_state.vector_store.xb[i] = Encode(session_state.chunks[i])
          /\ session_state.chunk_embeddings.xb[i] = Encode(session_state.chunks[i])

\* A second successful batch has replaced a first one, and a query has run.
CorpusAlignedWitness ==
  /\ last.op = "retrieve"
  /\ Ready(session_state)
  /\ Len(session_state.chunks) = 4
  /\ last.searched

\* C2: when process_pdfs fails (no chunk in the batch, or the embedding
\* raises), vector_store, chunks and chunk_embeddings are what they were before
\* the call.
FailedIngestKeepsCorpus ==
  Ingested /\ last.err # "none" =>
    /\ session_state.vector_store = last.pre.vector_store
    /\ session_state.chunks = last.pre.chunks
    /\ session_state.chunk_embeddings = last.pre.chunk_embeddings

\* A batch without text fails over a Ready corpus.
FailedIngestKeepsCorpusWitness ==
  /\ Ingested
  /\ last.err = "NoTextExtracted"
  /\ last.files # <<>>
  /\ Ready(last.pre)

\* C3: process_pdfs on an empty list, or on documents that all fail extraction
\* or hold no text, ends with the no-text error and with no other failure.
EmptyBatchRaisesNoText ==
  Ingested /\ (\A i \in 1..Len(last.files) :
                 DocChunks(last.files[i], last.pre_read) = <<>>)
    => last.err = "NoTextExtracted"

\* A damaged document and a document without text, with the embedder down.
EmptyBatchRaisesNoTextWitness ==
  /\ Ingested
  /\ last.files = <<3, 4>>
  /\ last.pre_read = {}
  /\ ~last.embed_ok

\* C4: a document that fails gives no chunks and does not stop the batch: every
\* document of the batch is read, and the corpus of a successful call is the
\* chunks of the documents that succeeded, in document order then source order.
FailedDocumentSkipped ==
  Ingested =>
    /\ Range(last.files) \subseteq consumed
    /\ last.err = "none" =>
         session_state.chunks = BatchChunks(last.files, 1, last.pre_read)

\* The first document of the batch failed and the second gave the corpus.
FailedDocumentSkippedWitness ==
  /\ IngestedOk
  /\ Len(last.files) = 2
  /\ ~Extractable(last.files[1], last.pre_read)
  /\ session_state.chunks # <<>>

\* C5: after a successful process_pdfs the corpus is the batch and nothing
\* else: the chunk list, the index rows and the embedding rows are those of the
\* batch's chunks, whatever was stored before.
IngestReplacesCorpus ==
  IngestedOk =>
    LET batch == BatchChunks(last.files, 1, last.pre_read)
        rows == [i \in 1..Len(batch) |-> Encode(batch[i])]
    IN /\ session_state.chunks = batch
       /\ session_state.vector_store = Some(rows)
       /\ session_state.chunk_embeddings = Some(rows)

\* A batch with a failed document replaced a corpus of other chunks.
IngestReplacesCorpusWitness ==
  /\ IngestedOk
  /\ Ready(last.pre)
  /\ last.pre.chunks # session_state.chunks
  /\ \E i \in 1..Len(last.files) : ~Extractable(last.files[i], last.pre_read)

\* C6: a successful process_pdfs leaves the pipeline Ready and returns the
\* number of chunks the corpus holds when it returns.
IngestReturnsCorpusSize ==
  IngestedOk =>
    /\ Ready(session_state)
    /\ last.ret = Len(session_state.chunks)

\* Two documents gave four chunks.
IngestReturnsCorpusSizeWitness ==
  /\ IngestedOk
  /\ Len(last.files) = 2
  /\ last.ret = 4

\* C7, as stated: retrieve_relevant_chunks returns min(k, corpus size) chunks
\* from a Ready corpus, and nothing, without a search, from an Empty one.
RetrieveCountAsStated ==
  last.op = "retrieve" =>
    IF Ready(last.pre)
    THEN Len(last.chunks) = Min(last.top_k, Len(last.pre.chunks))
    ELSE last.chunks = <<>> /\ ~last.searched

\* C7, amended: from a Ready corpus retrieve_relevant_chunks returns
\* min(k, corpus size) chunks when embedding the query and searching raise
\* nothing, and no chunks when they raise; from an Empty corpus it returns no
\* chunks and does not search.
RetrieveCount ==
  last.op = "retrieve" =>
    /\ ~last.raised
    /\ IF Ready(last.pre) /\ last.embed_ok
       THEN /\ Len(last.chunks) = Min(last.top_k, Len(last.pre.chunks))
            /\ last.searched
       ELSE last.chunks = <<>> /\ ~last.searched

\* One chunk asked of a corpus of four, and eight asked of it.
RetrieveCountWitness ==
  /\ last.op = "retrieve"
  /\ Ready(last.pre)
  /\ last.embed_ok
  /\ last.top_k < Len(last.pre.chunks)
  /\ Len(last.chunks) = last.top_k

\* Distance of the r-th returned chunk from the query.
ReturnedDistance(r) == L2sqr(Encode(last.chunks[r]), Encode(last.query))

\* C8: the returned chunks are in non-decreasing order of squared L2 distance
\* from the query, and of two at one distance the one added to the index
\* earlier comes first.
RetrievedInRankOrder ==
  last.op = "retrieve" =>
    /\ Len(last.indices) = Len(last.chunks)
    /\ \A r \in 1..Len(last.chunks) :
         /\ last.indices[r] \in 1..Len(last.pre.chunks)
         /\ last.chunks[r] = last.pre.chunks[last.indices[r]]
    /\ \A r, t \in 1..Len(last.chunks) :
         r < t =>
           /\ ReturnedDistance(r) <= ReturnedDistance(t)
           /\ ReturnedDistance(r) = ReturnedDistance(t)
                => last.indices[r] < last.indices[t]

\* Three chunks at one distance, two of them of one text, came back in the
\* order they were added, and a farther one after them.
RetrievedInRankOrderWitness ==
  /\ last.op = "retrieve"
  /\ Len(last.chunks) = 4
  /\ last.chunks[1] # last.chunks[2]
  /\ last.chunks[1] = last.chunks[3]
  /\ ReturnedDistance(1) = ReturnedDistance(3)
  /\ ReturnedDistance(3) < ReturnedDistance(4)

\* Where the label of the i-th entry stands in a context assembled of chunks.
RECURSIVE LabelAt(_, _)
LabelAt(chunks, i) ==
  IF i = 1 THEN 1 ELSE LabelAt(chunks, i - 1) + Len(chunks[i - 1]) + 2

\* C9: get_context_for_query returns the fixed message when nothing was
\* retrieved; otherwise the retrieved chunks in rank order, the i-th behind the
\* label "[Context i]: " with i from 1 without gaps, a blank line between two
\* entries, every chunk whole.
ContextAssembled ==
  last.op = "get_context" =>
    IF last.chunks = <<>> THEN last.context = NoContextMessage
    ELSE LET n == Len(last.chunks)
         IN /\ Len(last.context)
                 = LabelAt(last.chunks, n) + Len(last.chunks[n])
            /\ \A i \in 1..n :
                 LET at == LabelAt(last.chunks, i)
                     len == Len(last.chunks[i])
                 IN /\ last.context[at] = "[Context " \o ToString(i) \o "]: "
                    /\ SubSeq(last.context, at + 1, at + len) = last.chunks[i]
                    /\ i < n => last.context[at + len + 1] = "\n\n"

\* Four chunks were assembled.
ContextAssembledWitness ==
  /\ last.op = "get_context"
  /\ Len(last.chunks) = 4
  /\ Len(last.context) > 4

\* C10: the callers' test calls the assembled context of a non-empty retrieval
\* real output, whatever the chunks say, and calls an output the sentinel only
\* when nothing was retrieved.
SentinelTestSeparates ==
  last.op = "get_context" =>
    (is_no_information(last.context) <=> last.chunks = <<>>)

\* C11: RAGTool.execute calls the answering LLM only over a loaded corpus and
\* with a context assembled from at least one retrieved chunk, never with the
\* sentinel; without a corpus it returns the no-documents message.
LlmOnlyOverRetrievedChunks ==
  last.op = "rag_execute" =>
    /\ last.invoked =>
         /\ Ready(last.pre)
         /\ last.chunks # <<>>
         /\ last.context = JoinEntries(last.chunks, 0)
         /\ last.context # NoContextMessage
    /\ ~Ready(last.pre) /\ ~last.raised =>
         ~last.invoked /\ last.reply = NoDocumentsMessage
    /\ last.context = NoContextMessage => ~last.invoked

LlmOnlyOverRetrievedChunksWitness ==
  /\ last.op = "rag_execute"
  /\ last.invoked
  /\ last.reply = Answer
  /\ Len(last.chunks) = 2

\* C12: a message handled as a question while no corpus is loaded is answered
\* with the no-documents message, whatever the LLM collaborator does.
QueryWithoutCorpusGetsNoDocuments ==
  last.op = "process_user_message" /\ ~Ready(last.pre) =>
    ~last.raised /\ last.reply = NoDocumentsMessage

\* C13: whenever retrieve_relevant_chunks runs, also between the steps of a
\* rebuild, the index and the chunk list it reads belong to one build: the
\* rows of the index are the embeddings of the chunks.
RetrieveSeesOneBuild ==
  last.op = "retrieve" /\ Ready(last.pre) =>
    last.pre.vector_store.xb = create_embeddings(last.pre.chunks)

\* C17 as stated: once a batch is being processed over a Ready corpus, the
\* previous corpus is gone before extraction and embedding have completed.
CorpusDiscardedAtStart ==
  pending.step \in {"extracted", "embedded"} /\ Ready(pending.pre) =>
    Corpus(session_state) # Corpus(pending.pre)

\* C17: while a batch is being extracted and embedded the stored corpus is the
\* one from before the call; it is replaced only by the stores of
\* build_vector_store, after embedding has succeeded, and a failed call leaves
\* it in place.
CorpusKeptUntilBuilt ==
  /\ pending.step \in {"extracted", "embedded"} =>
       Corpus(session_state) = Corpus(pending.pre)
  /\ pending.step \in {"index_stored", "chunks_stored"} =>
       session_state.vector_store = Some(create_embeddings(pending.all_chunks))
  /\ last.op = "process_pdfs" /\ last.err # "none" /\ pending.step = "idle" =>
       Corpus(session_state) = Corpus(last.pre)

CorpusKeptUntilBuiltWitness ==
  /\ pending.step = "embedded"
  /\ Ready(pending.pre)
  /\ session_state.chunks = pending.pre.chunks
  /\ pending.all_chunks # pending.pre.chunks

\* C14: however many pipelines are constructed in the process, in this session
\* or in others, the embedding model is loaded at most once.
ModelLoadedOnce == model_loads <= 1

Extracted == last.op = "extract_text_from_pdf"

\* C15: extraction of a document whose stream opens goes on past a page that
\* raises, and returns the text of the other pages.
PageFailureTolerated ==
  Extracted /\ last.files[1] \notin last.pre_read =>
    /\ last.err = "none"
    /\ last.text = PassagesFrom(Documents[last.files[1]], 1)

\* C16: extraction leaves the file object as it found it, so that a call gives
\* what the first call on that object gave.
ExtractionRepeatable ==
  Extracted =>
    LET first == extract_text_from_pdf(last.files[1], {})
    IN /\ (last.err = "none") = first.ok
       /\ last.text = first.text

\* C18: build_vector_store fails with EmptyCorpus on an empty collection, and
\* on a non-empty one it stores the new index in place of any prior one.
EmptyBuildFails ==
  last.op = "build_vector_store" =>
    IF last.chunks = <<>>
    THEN last.err = "EmptyCorpus"
    ELSE session_state.vector_store = Some(create_embeddings(last.chunks))

\* A fee line is among the lines of the chunks.
HasFeeLine(chunks) ==
  \E i \in 1..Len(chunks) : \E j \in 1..Len(chunks[i]) : chunks[i][j] = "Fee: $150"

\* C19: extract_services_from_pdfs returns a non-empty list and raises
\* nothing; the list is the default catalog when no corpus is loaded, when the
\* retrieval gives the sentinel, and when the context holds no doctor and fee
\* to make a record of.
ServicesNeverEmpty ==
  last.op = "extract_services_from_pdfs" =>
    /\ ~last.raised
    /\ last.services # <<>>
    /\ ~Ready(last.pre) => last.services = DefaultServices
    /\ last.context = NoContextMessage => last.services = DefaultServices
    /\ ~HasFeeLine(last.chunks) => last.services = DefaultServices

ServicesNeverEmptyWitness ==
  /\ last.op = "extract_services_from_pdfs"
  /\ Ready(last.pre)
  /\ last.chunks = <<TextBob>>
  /\ last.context # NoContextMessage
  /\ last.services = DefaultServices

\* C20: when "Load Samples" reports success with N chunks, the corpus of the
\* session holds N chunks.
LoadedCountIsCorpusSize ==
  last.op = "load_samples" /\ last.err = "success" =>
    Len(session_state.chunks) = last.ret

\* The rows of the bookings table that are confirmed bookings of one date and
\* one time slot.
ConfirmedRows(date, slot) ==
  {i \in 1..Len(db.bookings) :
     /\ db.bookings[i].status = "confirmed"
     /\ db.bookings[i].date = date
     /\ normalized_time(db.bookings[i].time) = slot}

\* C21: whatever the interleaving of two sessions that each select a time
\* slot and confirm, the bookings table never holds two confirmed bookings
\* of the same date and the same time slot.
NoDoubleBooking ==
  \A date \in Dates, slot \in Slots : Cardinality(ConfirmedRows(date, slot)) <= 1

\* The customer_ids of the rows of the customers table with an email.
CustomerIds(email) ==
  {db.customers[i].customer_id :
     i \in {j \in 1..Len(db.customers) : db.customers[j].email = email}}

\* C22: each email of the customers table has one customer_id, and a call of
\* get_or_create_customer for the email returns it.
OneCustomerPerEmail ==
  /\ \A i \in 1..Len(db.customers) :
       Cardinality(CustomerIds(db.customers[i].email)) = 1
  /\ (last.op = "handle_booking_confirmation" /\ last.customer_id # 0)
       => CustomerIds(last.before.email) = {last.customer_id}

\* C23: while a booking awaits confirmation, a response that is "no",
\* "incorrect" or "wrong" once lowered and stripped resets the booking state
\* and neither creates a booking nor sends an email.
NegativeResponseResets ==
  (/\ last.op = "handle_booking_confirmation"
   /\ strip(lower(last.response)) \in {No, Incorrect, Wrong})
    => /\ last.reply = "reset"
       /\ last.created = 0 /\ ~last.emailed
       /\ booking[last.session].booking_state = NoBooking

\* C24: in every session, awaiting_confirmation is TRUE only if intent is
\* "booking" and name, email, phone, service, date and time are non-empty.
AwaitingOnlyWhenComplete ==
  \A s \in Sessions :
    LET state == booking[s].booking_state
    IN state.awaiting_confirmation
         => /\ state.intent = "booking"
            /\ state.name # "" /\ state.email # <<>> /\ state.phone # <<>>
            /\ state.service # "" /\ state.date # 0 /\ state.time # <<>>

AwaitingOnlyWhenCompleteWitness ==
  /\ last.op = "select_time"
  /\ booking[last.session].booking_state.awaiting_confirmation

BookingNeverDiverted ==
  last.op = "process_user_message"
    => ~(/\ booking[User].booking_state.intent = "booking"
         /\ ~booking[User].booking_state.awaiting_confirmation)

\* The digits of a phone value.
DigitsOf(phone) == SelectSeq(phone, IsDigit)

\* C27: in every session a non-empty email matches EMAIL_PATTERN and a
\* non-empty phone holds at least PHONE_MIN_LENGTH digits.
StoredContactsValid ==
  \A s \in Sessions :
    LET state == booking[s].booking_state
    IN /\ state.email # <<>> => MatchesEmailPattern(state.email)
       /\ state.phone # <<>> => Len(DigitsOf(state.phone)) >= PHONE_MIN_LENGTH

\* C28: a session with intent "booking" that is not awaiting confirmation
\* and whose user keeps acting eventually awaits confirmation, whatever the
\* bookings table holds.
FlowReachesConfirmation ==
  \A s \in Sessions :
    (/\ booking[s].booking_state.intent = "booking"
     /\ ~booking[s].booking_state.awaiting_confirmation)
      ~> booking[s].booking_state.awaiting_confirmation

\* C29 as stated: once a list of file names has been ingested, no later
\* script run with that list invokes process_pdfs.
NeverIngestedAgain == ~(last.op = "rerun" /\ last.invoked /\ last.again)

\* C29: a script run invokes process_pdfs exactly when the uploader holds
\* files whose names differ from last_uploaded_files, so the runs after a
\* successful ingest do not invoke it while the list is the one ingested
\* last; last_uploaded_files changes only in a run whose process_pdfs
\* returned, and to the names of that run.
ProcessedOnlyWhenListChanged ==
  [][/\ last'.op = "rerun"
        => /\ last'.invoked
                <=> /\ last'.files # <<>>
                    /\ current_files(last'.files) # uploader.last_uploaded_files
           /\ (last'.invoked /\ last'.err = "none")
                => uploader'.last_uploaded_files = current_files(last'.files)
     /\ uploader'.last_uploaded_files # uploader.last_uploaded_files
        => /\ last'.op = "rerun" /\ last'.invoked /\ last'.err = "none"
           /\ uploader'.last_uploaded_files = current_files(last'.files)]_vars

ProcessedOnlyWhenListChangedWitness ==
  /\ last.op = "rerun" /\ ~last.invoked /\ last.again
  /\ current_files(last.files) = uploader.last_uploaded_files

=============================================================================
